---------------------------- MODULE Spec2Model ----------------------------
(***************************************************************************)
(* SmartStock frontend: the session store (stores/authStore.ts), the       *)
(* authenticated request pipeline (lib/api.ts: the axios instance `api`    *)
(* and its interceptors), the sidebar's handleLogout and the Reports       *)
(* screen's fetchReportData, modelled as one state machine.                *)
(*                                                                         *)
(* JavaScript runs these on one thread: every action below is one          *)
(* run-to-completion step (an event handler, or the continuation of an     *)
(* `await` once the awaited request has settled).                          *)
(***************************************************************************)
EXTENDS Integers, FiniteSets, Sequences, TLC

(***************************************************************************)
(* Values                                                                  *)
(***************************************************************************)
\* JavaScript null / undefined held in a field
NULL == "null"
\* the empty string
EMPTY == ""
\* a key that the object does not have
ABSENT == "absent"

\* JavaScript truthiness of a string-or-null value
Truthy(x) == x \notin {NULL, EMPTY, ABSENT, "false"}

\* number of outbound calls that can be in flight through `api` at once
MaxCalls == 2
\* cap on the refresh requests / re-issues counted for one call
MaxAttempts == 2

Calls == 1..MaxCalls

\* access tokens the backend hands out (login and refresh responses)
AccessTokens == {"a1", "a2"}
\* refresh tokens the backend hands out (login responses)
RefreshTokens == {"r1"}

\* HTTP outcomes of a failed request: 401, another error status, no response
ErrorStatuses == {"401", "500", "network"}

\* `user: null` of the store.  A real user always has a role.
NullUser == [role |-> NULL, departmentId |-> NULL, department_id |-> ABSENT]

\* rawUser objects of POST /auth/login responses
RawUsers ==
  { [role |-> "manager", department_id |-> NULL],
    [role |-> "staff",   department_id |-> "D1"] }

\* Login.onSubmit: { ...rawUser, departmentId: rawUser.department_id }
mapRawUser(raw) ==
  [role |-> raw.role, departmentId |-> raw.department_id,
   department_id |-> raw.department_id]

\* Partial<User> arguments of updateUser
\* the users the screens are visited by: a staff member without a department
\* besides the two above
PageRawUsers == RawUsers \cup {[role |-> "staff", department_id |-> NULL]}

UserUpdates == { [departmentId |-> "D1"] }

(***************************************************************************)
(* Session store: the state object and its actions, as pure functions of   *)
(* the state (zustand's set() merges the given keys into the state).       *)
(***************************************************************************)
InitialState_Authenticated ==
  [user |-> NullUser, accessToken |-> NULL, refreshToken |-> NULL,
   isAuthenticated |-> TRUE, isLoading |-> FALSE]

InitialState ==
  [user |-> NullUser, accessToken |-> NULL, refreshToken |-> NULL,
   isAuthenticated |-> FALSE, isLoading |-> FALSE]

login(s, user, accessToken, refreshToken) ==
  [s EXCEPT !.user = user, !.accessToken = accessToken,
            !.refreshToken = refreshToken, !.isAuthenticated = TRUE,
            !.isLoading = FALSE]

logout_KeepsRefreshToken(s) ==
  [s EXCEPT !.user = NullUser, !.accessToken = NULL,
            !.isAuthenticated = FALSE, !.isLoading = FALSE]

logout_StaysAuthenticated(s) ==
  [s EXCEPT !.user = NullUser, !.accessToken = NULL, !.refreshToken = NULL,
            !.isLoading = FALSE]

logout(s) ==
  [s EXCEPT !.user = NullUser, !.accessToken = NULL, !.refreshToken = NULL,
            !.isAuthenticated = FALSE, !.isLoading = FALSE]

\* { ...currentUser, ...userUpdate }
mergeUser(u, upd) ==
  [k \in DOMAIN u |-> IF k \in DOMAIN upd THEN upd[k] ELSE u[k]]

updateUser(s, upd) ==
  IF s.user /= NullUser THEN [s EXCEPT !.user = mergeUser(s.user, upd)] ELSE s

setLoading(s, loading) == [s EXCEPT !.isLoading = loading]

updateTokens_Rotates(s, accessToken, refreshToken) ==
  [s EXCEPT !.accessToken = accessToken, !.refreshToken = refreshToken]

updateTokens_Ignored(s, accessToken, refreshToken) == s

\* set({ accessToken, ...(refreshToken && { refreshToken }) })
updateTokens(s, accessToken, refreshToken) ==
  [s EXCEPT !.accessToken = accessToken,
            !.refreshToken = IF Truthy(refreshToken) THEN refreshToken ELSE @]

\* persist: the part of the state written to localStorage
partialize(s) ==
  [user |-> s.user, accessToken |-> s.accessToken,
   refreshToken |-> s.refreshToken, isAuthenticated |-> s.isAuthenticated]

\* onRehydrateStorage: move department_id to departmentId, drop the old key
migrateUser(u) ==
  LET moved == IF ~Truthy(u.departmentId) /\ Truthy(u.department_id)
               THEN [u EXCEPT !.departmentId = u.department_id] ELSE u
  IN  IF Truthy(u.department_id) THEN [moved EXCEPT !.department_id = ABSENT]
      ELSE moved

\* what localStorage holds when the value of the key cannot be parsed
Unparseable == [corrupt |-> TRUE]

\* persist's hydration at page load: the persisted keys are merged over the
\* initial state, then onRehydrateStorage runs.  `stored` is <<>> when the
\* key is not in localStorage and <<p>> when it holds p.  When p cannot be
\* parsed, persist catches the error and calls the callback with no state:
\* `state?.user` is then undefined and the store keeps its initial state.
rehydrate(stored) ==
  IF stored = <<>> THEN InitialState
  ELSE IF stored[1] = Unparseable THEN InitialState
  ELSE LET p == stored[1]
           s == [InitialState EXCEPT !.user = p.user,
                                     !.accessToken = p.accessToken,
                                     !.refreshToken = p.refreshToken,
                                     !.isAuthenticated = p.isAuthenticated]
       IN  IF s.user /= NullUser THEN [s EXCEPT !.user = migrateUser(s.user)]
           ELSE s

(***************************************************************************)
(* Department-scoped permission checks of the screens.  A JavaScript       *)
(* boolean is "true" or "false"; a check returns what the code returns,    *)
(* which for staff can be the falsy departmentId itself.                   *)
(***************************************************************************)
JsBool(b) == IF b THEN "true" ELSE "false"

Departments == {"D1", "D2"}

MaxStock == 2
Stocks == {MaxStock}

\* a product row as GET /products returns it
Products == [department_id : Departments \cup {NULL}, quantity_in_stock : Stocks]

\* selectedProduct === null
NoProduct == [department_id |-> ABSENT, quantity_in_stock |-> 0]

\* a product with any department reference: an id, null, undefined or empty
Resources ==
  [department_id : Departments \cup {NULL, EMPTY, ABSENT},
   quantity_in_stock : Stocks]

\* every user the store can hold: null, or a role with a departmentId that is
\* null, undefined, empty or a department's id
Actors ==
  {NullUser} \cup
  [role : {"manager", "staff"},
   departmentId : Departments \cup {NULL, EMPTY, ABSENT},
   department_id : {ABSENT}]

canEditProduct_ManagerScoped(user, product) ==
  IF user = NullUser THEN "false"
  ELSE IF Truthy(user.departmentId)
       THEN JsBool(product.department_id = user.departmentId)
       ELSE user.departmentId

\* Products.canEditProduct
canEditProduct(user, product) ==
  IF user = NullUser THEN "false"
  ELSE IF user.role = "manager" THEN "true"
  ELSE IF user.role = "staff"
       THEN IF Truthy(user.departmentId)
            THEN JsBool(product.department_id = user.departmentId)
            ELSE user.departmentId
       ELSE "false"

canDeleteProduct_AnyActor(user) == JsBool(user /= NullUser)

\* Products.canDeleteProduct: user?.role === 'manager'
canDeleteProduct(user) ==
  JsBool((IF user = NullUser THEN ABSENT ELSE user.role) = "manager")

EditProduct_canEditProduct_UnassignedOpen(user, product) ==
  IF user = NullUser THEN "false"
  ELSE IF user.role = "manager" THEN "true"
  ELSE IF user.role = "staff"
       THEN JsBool(product.department_id = user.departmentId)
       ELSE "false"

\* EditProduct.canEditProduct
EditProduct_canEditProduct(user, product) ==
  IF user = NullUser THEN "false"
  ELSE IF user.role = "manager" THEN "true"
  ELSE IF user.role = "staff"
       THEN IF Truthy(user.departmentId)
            THEN JsBool(product.department_id = user.departmentId)
            ELSE user.departmentId
       ELSE "false"

canAdjustStock_AnyDepartment(user, product) ==
  IF user = NullUser THEN "false"
  ELSE IF user.role = "manager" THEN "true"
  ELSE IF user.role = "staff"
       THEN IF Truthy(user.departmentId) THEN JsBool(Truthy(product.department_id))
            ELSE user.departmentId
       ELSE "false"

\* Inventory.canAdjustStock
canAdjustStock(user, product) ==
  IF user = NullUser THEN "false"
  ELSE IF user.role = "manager" THEN "true"
  ELSE IF user.role = "staff"
       THEN LET canAdjust ==
                  IF Truthy(user.departmentId)
                  THEN JsBool(product.department_id = user.departmentId)
                  ELSE user.departmentId
            IN  canAdjust
       ELSE "false"

(***************************************************************************)
(* Stock adjustment form of the Inventory screen.  The quantity field is a *)
(* number input, so its value need not be whole: [n, half] is n when half  *)
(* is FALSE and n + 1/2 when it is TRUE.                                   *)
(***************************************************************************)
MaxQty == 3

Whole(n) == [n |-> n, half |-> FALSE]

\* what can be typed into the quantity field
Quantities ==
  {q \in [n : -1..MaxQty, half : BOOLEAN] : q.half => q.n \in {0, 1}}

ChangeTypes == {"restock", "sale", "adjustment", "return"}

\* q > k and q < k for a whole k
Greater(q, k) == IF q.half THEN q.n >= k ELSE q.n > k
Less(q, k) == q.n < k

\* k + q and k - q for a whole k
Plus(k, q) == [n |-> k + q.n, half |-> q.half]
Minus(k, q) ==
  IF q.half THEN [n |-> k - q.n - 1, half |-> TRUE]
  ELSE [n |-> k - q.n, half |-> FALSE]

\* quantityChanged || 0
OrZero(q) == IF q = Whole(0) THEN Whole(0) ELSE q

\* the sign of the preview's Change line
ChangeSign(changeType) ==
  IF changeType = "sale" \/ changeType = "adjustment" THEN "-" ELSE "+"

NewStock_Clamped(changeType, quantityChanged, quantity_in_stock) ==
  IF \/ changeType = "sale"
     \/ (changeType = "adjustment" /\ Greater(quantityChanged, quantity_in_stock))
  THEN LET d == Minus(quantity_in_stock, OrZero(quantityChanged))
       IN  IF Less(d, 0) THEN Whole(0) ELSE d
  ELSE Plus(quantity_in_stock, OrZero(quantityChanged))

\* the "New Stock" line of the preview
NewStock(changeType, quantityChanged, quantity_in_stock) ==
  IF \/ changeType = "sale"
     \/ (changeType = "adjustment" /\ Greater(quantityChanged, quantity_in_stock))
  THEN Minus(quantity_in_stock, OrZero(quantityChanged))
  ELSE Plus(quantity_in_stock, OrZero(quantityChanged))

NativeValid_NoStep(q) == ~Less(q, 1)

\* the input's own constraints, type="number" min="1": the browser does not
\* fire the submit event for a value under 1 or off the steps 1, 2, 3, ...
NativeValid(q) == ~Less(q, 1) /\ ~q.half

\* register('quantityChanged', { min: { value: 1, message } }): the message
\* of the failed rule, or null
validateQuantity(q) ==
  IF Less(q, 1) THEN "Quantity must be at least 1" ELSE NULL

(***************************************************************************)
(* Screens under ProtectedRoute                                            *)
(***************************************************************************)
\* no mutating call sent by a screen
NoneSent == [method |-> "none", product |-> NoProduct, actor |-> NullUser]

\* no screen mounted: the login route
ClosedPage == [route |-> "login"]

\* the screens as they mount: the component's state, and the mutating call
\* it has in flight
InventoryPage ==
  [route |-> "inventory", selectedProduct |-> NoProduct,
   showAdjustmentModal |-> FALSE, changeType |-> NULL,
   quantityChanged |-> Whole(0), error |-> NULL, sent |-> NoneSent]

ProductsPage == [route |-> "products", sent |-> NoneSent]

EditProductPage ==
  [route |-> "editProduct", product |-> NoProduct, sent |-> NoneSent]

Routes == {"inventory", "products", "editProduct"}

MaxRuns == 2

\* the runs of checkServerStatus that can be pending together
Runs == 1..MaxRuns

\* a run of testServerConnectivity that has not started
IdleTest == [pc |-> "idle", timer |-> FALSE, result |-> NULL]

\* Reports, mounted: serverStatus, where each run of checkServerStatus is,
\* and where testServerConnectivity is (timer: its setTimeout is armed)
ReportsPage ==
  [route |-> "reports", serverStatus |-> "unknown",
   check |-> [p \in Runs |-> "idle"], test |-> IdleTest]

Mount(route) ==
  CASE route = "inventory" -> InventoryPage
    [] route = "products" -> ProductsPage
    [] route = "editProduct" -> EditProductPage

\* ProtectedRoute: without a session the screen is replaced by
\* <Navigate to="/login">, which unmounts it and drops its state
ProtectedRoute(s, pg) == IF s.isAuthenticated THEN pg ELSE ClosedPage

(***************************************************************************)
(* State                                                                   *)
(***************************************************************************)
VARIABLES
  store,     \* useAuthStore's state
  storage,   \* localStorage["smartstock-auth"]: <<>> or <<partialized state>>
  call,      \* per outbound call through `api`: its request and its progress
  sidebar,   \* Sidebar.handleLogout: where it is
  reports,   \* Reports.fetchReportData: where it is
  page       \* the screen mounted under ProtectedRoute, and its state

vars == <<store, storage, call, sidebar, reports, page>>

\* A request config that has not been sent.  auth and newTok describe the
\* request in flight and are forgotten once the call has settled; the
\* counters are per call: sends of the request, refresh requests, re-issues,
\* logout() calls and toast.error() calls made by the interceptor on its
\* behalf.  error is response.data.error of the error the caller was
\* rejected with.
IdleCall ==
  [pc |-> "idle", retry |-> FALSE, rtok |-> NULL, auth |-> NULL,
   status |-> NULL, newTok |-> NULL, result |-> "none",
   sends |-> 0, refreshes |-> 0, reissues |-> 0, logouts |-> 0,
   error |-> ABSENT, toasts |-> 0]

IdleSidebar == [pc |-> "idle", c |-> 0]

\* refreshes: refresh requests sent on behalf of the report fetch
IdleReports == [pc |-> "idle", status |-> NULL, refreshes |-> 0]

Init ==
  /\ store = InitialState
  /\ storage = <<>>
  /\ call = [c \in Calls |-> IdleCall]
  /\ sidebar = IdleSidebar
  /\ reports = IdleReports
  /\ page = ClosedPage

\* every set() of the store is followed by persist's write of partialize(state)
\* and by the render of the subscribed components, ProtectedRoute among them
SetStore(s) ==
  /\ store' = s
  /\ storage' = <<partialize(s)>>
  /\ page' = ProtectedRoute(s, page)

(***************************************************************************)
(* Store actions called by the screens                                     *)
(***************************************************************************)
\* Login.onSubmit, after POST /auth/login answered 2xx
Login(raw, accessToken, refreshToken) ==
  /\ SetStore(login(store, mapRawUser(raw), accessToken, refreshToken))
  /\ UNCHANGED <<call, sidebar, reports>>

\* updateUser called on the store
UpdateUser(upd) ==
  /\ store.user /= NullUser
  /\ SetStore(updateUser(store, upd))
  /\ UNCHANGED <<call, sidebar, reports>>

\* App's mount effect: setLoading(false), the only call of setLoading
SetLoading(loading) ==
  /\ SetStore(setLoading(store, loading))
  /\ UNCHANGED <<call, sidebar, reports>>

\* updateTokens called on the store directly
UpdateTokens(accessToken, refreshToken) ==
  /\ SetStore(updateTokens(store, accessToken, refreshToken))
  /\ UNCHANGED <<call, sidebar, reports>>

\* A page load (the user reloads, or the assigned location is loaded): every
\* pending request and handler of the old page is gone, the store is created
\* anew and hydrated from localStorage.
Reload ==
  /\ store' = rehydrate(storage)
  /\ storage' = storage
  /\ call' = [c \in Calls |-> IdleCall]
  /\ sidebar' = IdleSidebar
  /\ reports' = IdleReports
  /\ page' = ClosedPage

(***************************************************************************)
(* Authenticated request pipeline: the axios instance `api`                *)
(***************************************************************************)
\* Request interceptor: the Authorization header of a request about to be
\* sent, given the header the config already has ("Bearer " left out).
requestInterceptor_KeepsHeader(s, header) == header

requestInterceptor(s, header) ==
  IF Truthy(s.accessToken) THEN s.accessToken ELSE header

ShouldRefresh_AnyStatus(status, retry, refreshToken) ==
  ~retry /\ Truthy(refreshToken)

ShouldRefresh_NoRetryMark(status, retry, refreshToken) ==
  status = "401" /\ Truthy(refreshToken)

ShouldRefresh_SingleFlight(status, retry, refreshToken) ==
  /\ status = "401" /\ ~retry /\ Truthy(refreshToken)
  /\ \A d \in Calls : call[d].pc /= "refreshing"

\* error.response?.status === 401 && !originalRequest._retry && refreshToken
ShouldRefresh(status, retry, refreshToken) ==
  status = "401" /\ ~retry /\ Truthy(refreshToken)

\* a config that can be handed to api(): not in flight, and not the one
\* handleLogout is awaiting
Free(c) ==
  /\ call[c].pc \in {"idle", "resolved", "rejected"}
  /\ ~(sidebar.pc = "awaiting" /\ sidebar.c = c)

\* the request as api(config) sends it for the first time
FirstSend ==
  [IdleCall EXCEPT !.pc = "sent", !.sends = 1,
                   !.auth = requestInterceptor(store, NULL)]

\* a screen calls one of the API methods (api.get / api.post / ...)
Request(c) ==
  /\ Free(c)
  /\ call' = [call EXCEPT ![c] = FirstSend]
  /\ UNCHANGED <<store, storage, sidebar, reports, page>>

\* response interceptor, success handler: (response) => response
RespondOk(c) ==
  /\ call[c].pc = "sent"
  /\ call' = [call EXCEPT ![c].pc = "resolved", ![c].status = "200",
                          ![c].result = "ok", ![c].auth = NULL,
                          ![c].newTok = NULL]
  /\ UNCHANGED <<store, storage, sidebar, reports, page>>

\* const silentErrors = ['Invalid credentials', 'User not found']
silentErrors == {"Invalid credentials", "User not found"}

\* response.data.error of an error response: absent, or the server's text
DataErrors == silentErrors \cup {"Access denied", ABSENT}

\* The errors axios rejects a request with.  Without a response (network
\* failure, timeout) there is no response.data; the error's message is the
\* non-empty text axios gives it.
AxiosError(status, error) ==
  [status |-> status, error |-> error,
   message |-> IF status = "network" THEN "Network Error"
               ELSE "Request failed with status code"]

AxiosErrors ==
  {AxiosError(status, error) : status \in {"401", "500"}, error \in DataErrors}
    \cup {AxiosError("network", ABSENT)}

errorToasts_NoSilentList(error) ==
  IF Truthy(error.error) THEN 1
  ELSE IF Truthy(error.message) THEN 1
  ELSE 0

\* "Handle other errors": the number of toast.error() calls
errorToasts(error) ==
  IF Truthy(error.error)
  THEN (IF error.error \notin silentErrors THEN 1 ELSE 0)
  ELSE IF Truthy(error.message) THEN 1
  ELSE 0

\* response interceptor, error handler, up to its first await: either the
\* refresh request is sent, or the error is shown and rejected to the caller
ResponseError(c, error) ==
  /\ call[c].pc = "sent"
  /\ call[c].refreshes < MaxAttempts
  /\ LET refreshToken == store.refreshToken
     IN  IF ShouldRefresh(error.status, call[c].retry, refreshToken)
         THEN call' = [call EXCEPT ![c].pc = "refreshing",
                                   ![c].retry = TRUE,
                                   ![c].status = error.status,
                                   ![c].rtok = refreshToken,
                                   ![c].auth = NULL,
                                   ![c].refreshes = @ + 1]
         ELSE call' = [call EXCEPT ![c].pc = "rejected",
                                   ![c].status = error.status,
                                   ![c].result = "error",
                                   ![c].error = error.error,
                                   ![c].toasts = @ + errorToasts(error),
                                   ![c].auth = NULL,
                                   ![c].newTok = NULL]
  /\ UNCHANGED <<store, storage, sidebar, reports, page>>

\* an error response, or no response, with no response.data.error
RespondError(c, status) == ResponseError(c, AxiosError(status, ABSENT))

\* POST /api/auth/refresh answered 2xx with { accessToken }: the try block
\* after the await, through the re-issue api(originalRequest)
RefreshOk(c, accessToken) ==
  /\ call[c].pc = "refreshing"
  /\ call[c].reissues < MaxAttempts
  /\ LET s == updateTokens(store, accessToken, NULL)
     IN  /\ SetStore(s)
         /\ call' = [call EXCEPT ![c].pc = "sent",
                                 ![c].newTok = accessToken,
                                 ![c].auth = requestInterceptor(s, accessToken),
                                 ![c].sends = @ + 1,
                                 ![c].reissues = @ + 1]
  /\ UNCHANGED <<sidebar, reports>>

RefreshFail_Reissues(c) ==
  /\ call[c].pc = "refreshing"
  /\ call[c].reissues < MaxAttempts
  /\ SetStore(logout(store))
  /\ call' = [call EXCEPT ![c].pc = "sent", ![c].result = "refreshError",
                          ![c].logouts = @ + 1, ![c].sends = @ + 1,
                          ![c].reissues = @ + 1, ![c].toasts = @ + 1]
  /\ UNCHANGED <<sidebar, reports>>

\* POST /api/auth/refresh failed: the catch block.  logout(), the assignment
\* window.location.href = '/login', the 'Session expired' toast and the
\* rejection with refreshError happen together: result "refreshError" stands
\* for the assignment and the rejection.
RefreshFail(c) ==
  /\ call[c].pc = "refreshing"
  /\ SetStore(logout(store))
  /\ call' = [call EXCEPT ![c].pc = "rejected", ![c].result = "refreshError",
                          ![c].logouts = @ + 1, ![c].toasts = @ + 1,
                          ![c].auth = NULL]
  /\ UNCHANGED <<sidebar, reports>>

(***************************************************************************)
(* Sidebar.handleLogout                                                    *)
(***************************************************************************)
HandleLogoutClick_ClearsFirst ==
  /\ sidebar.pc /= "awaiting"
  /\ IF Truthy(store.refreshToken)
     THEN \E c \in Calls :
            /\ Free(c)
            /\ call' = [call EXCEPT ![c] = FirstSend]
            /\ sidebar' = [pc |-> "awaiting", c |-> c]
            /\ SetStore(logout(store))
     ELSE /\ SetStore(logout(store))
          /\ sidebar' = [pc |-> "done", c |-> 0]
          /\ call' = call
  /\ UNCHANGED reports

\* the click, up to `await authAPI.logout(refreshToken)`; with no refresh
\* token the handler runs to its end
HandleLogoutClick ==
  /\ sidebar.pc /= "awaiting"
  /\ IF Truthy(store.refreshToken)
     THEN \E c \in Calls :
            /\ Free(c)
            /\ call' = [call EXCEPT ![c] = FirstSend]
            /\ sidebar' = [pc |-> "awaiting", c |-> c]
            /\ UNCHANGED <<store, storage, page>>
     ELSE /\ SetStore(logout(store))
          /\ sidebar' = [pc |-> "done", c |-> 0]
          /\ call' = call
  /\ UNCHANGED reports

HandleLogoutSettled_NoCatchLogout ==
  /\ sidebar.pc = "awaiting"
  /\ call[sidebar.c].pc \in {"resolved", "rejected"}
  /\ IF call[sidebar.c].pc = "resolved"
     THEN SetStore(logout(store))
     ELSE UNCHANGED <<store, storage, page>>
  /\ sidebar' = [pc |-> "done", c |-> 0]
  /\ UNCHANGED <<call, reports>>

\* after the await: logout() in the try block when the notification
\* resolved, logout() in the catch block when it rejected.  (The continuation
\* runs right after the call settles; taking it as a step of its own only
\* adds interleavings.)
HandleLogoutSettled ==
  /\ sidebar.pc = "awaiting"
  /\ call[sidebar.c].pc \in {"resolved", "rejected"}
  /\ SetStore(logout(store))
  /\ sidebar' = [pc |-> "done", c |-> 0]
  /\ UNCHANGED <<call, reports>>

(***************************************************************************)
(* Reports.fetchReportData: fetch() with the token of the last render, not *)
(* the api instance                                                        *)
(***************************************************************************)
\* handleAuthError: logout(); navigate('/login')
handleAuthError(status) ==
  /\ SetStore(logout(store))
  /\ reports' = [reports EXCEPT !.pc = "authError", !.status = status]

\* the effect on [activeTab, filters], up to the first await
FetchReportData ==
  /\ reports.pc /= "fetching"
  /\ store.isAuthenticated /\ Truthy(store.accessToken)
  /\ IF store.user = NullUser
     THEN handleAuthError(NULL)
     ELSE /\ IF store.user.role = "staff"
                  /\ ~Truthy(store.user.departmentId)
                  /\ ~Truthy(store.user.department_id)
             THEN reports' = [reports EXCEPT !.pc = "idle", !.status = NULL]
             ELSE reports' = [reports EXCEPT !.pc = "fetching", !.status = NULL]
          /\ UNCHANGED <<store, storage, page>>
  /\ UNCHANGED <<call, sidebar>>

\* the connectivity test and the report fetch have settled
ReportResponse(status) ==
  /\ reports.pc = "fetching"
  /\ IF status = "401"
     THEN handleAuthError(status)
     ELSE /\ reports' = [reports EXCEPT !.pc = "idle", !.status = NULL]
          /\ UNCHANGED <<store, storage, page>>
  /\ UNCHANGED <<call, sidebar>>

(***************************************************************************)
(* Reports: the backend liveness check.  Responses and failures of fetch   *)
(* are the backend's and the network's steps; the timers are the page's.   *)
(***************************************************************************)
\* the statuses /health and /categories are answered with
ProbeStatuses == {200, 401, 500}

\* Response.ok
responseOk(status) == status >= 200 /\ status <= 299

\* checkServerStatus is called (mount effect, interval tick, Retry button),
\* up to the await of fetch(`${API_BASE_URL}/health`)
CheckServerStatus(p) ==
  /\ page.route = "reports"
  /\ page.check[p] \in {"idle", "done"}
  /\ page' = [page EXCEPT !.check[p] = "health"]
  /\ UNCHANGED <<store, storage, call, sidebar, reports>>

\* /health has answered: running if ok, else the fallback fetch is sent
HealthResponse(p, status) ==
  /\ page.route = "reports"
  /\ page.check[p] = "health"
  /\ IF responseOk(status)
     THEN page' = [page EXCEPT !.serverStatus = "running",
                               !.check[p] = "done"]
     ELSE page' = [page EXCEPT !.check[p] = "fallback"]
  /\ UNCHANGED <<store, storage, call, sidebar, reports>>

\* /categories has answered: running unless the status is 5xx
FallbackResponse(p, status) ==
  /\ page.route = "reports"
  /\ page.check[p] = "fallback"
  /\ LET isRunning == status < 500
     IN  page' = [page EXCEPT
                    !.serverStatus = IF isRunning THEN "running" ELSE "offline",
                    !.check[p] = "done"]
  /\ UNCHANGED <<store, storage, call, sidebar, reports>>

\* one of the two fetches has rejected (the network reported a failure):
\* the catch block
CheckFetchFails(p) ==
  /\ page.route = "reports"
  /\ page.check[p] \in {"health", "fallback"}
  /\ page' = [page EXCEPT !.serverStatus = "offline", !.check[p] = "done"]
  /\ UNCHANGED <<store, storage, call, sidebar, reports>>

\* testServerConnectivity up to the await: the abort timer is armed, the
\* fetch is sent with the controller's signal
TestServerConnectivity ==
  /\ page.route = "reports"
  /\ page.test.pc \in {"idle", "done"} /\ ~page.test.timer
  /\ page' = [page EXCEPT !.test = [pc |-> "pending", timer |-> TRUE,
                                    result |-> NULL]]
  /\ UNCHANGED <<store, storage, call, sidebar, reports>>

\* its fetch has answered: clearTimeout, return response.ok
TestResponse(status) ==
  /\ page.route = "reports"
  /\ page.test.pc = "pending"
  /\ page' = [page EXCEPT !.test = [pc |-> "done", timer |-> FALSE,
                                    result |-> JsBool(responseOk(status))]]
  /\ UNCHANGED <<store, storage, call, sidebar, reports>>

\* its fetch has rejected by itself: the catch block returns false and
\* leaves the timer armed
TestFetchFails ==
  /\ page.route = "reports"
  /\ page.test.pc = "pending"
  /\ page' = [page EXCEPT !.test.pc = "done", !.test.result = "false"]
  /\ UNCHANGED <<store, storage, call, sidebar, reports>>

\* the 5 second timer fires: controller.abort() rejects a fetch still
\* pending with an AbortError, which the catch block turns into false
TestTimeout ==
  /\ page.route = "reports"
  /\ page.test.timer
  /\ IF page.test.pc = "pending"
     THEN page' = [page EXCEPT !.test = [pc |-> "done", timer |-> FALSE,
                                        result |-> "false"]]
     ELSE page' = [page EXCEPT !.test.timer = FALSE]
  /\ UNCHANGED <<store, storage, call, sidebar, reports>>

\* Reports has been opened in a session
ProbeInit ==
  /\ store \in {login(InitialState, mapRawUser(raw), "a1", "r1") :
                  raw \in RawUsers}
  /\ storage = <<partialize(store)>>
  /\ call = [c \in Calls |-> IdleCall]
  /\ sidebar = IdleSidebar
  /\ reports = IdleReports
  /\ page = ReportsPage

ProbeNext ==
  \/ \E p \in Runs : CheckServerStatus(p)
  \/ \E p \in Runs, status \in ProbeStatuses : HealthResponse(p, status)
  \/ \E p \in Runs, status \in ProbeStatuses : FallbackResponse(p, status)
  \/ \E p \in Runs : CheckFetchFails(p)
  \/ TestServerConnectivity
  \/ \E status \in ProbeStatuses : TestResponse(status)
  \/ TestFetchFails
  \/ TestTimeout

\* The interval and the abort timer fire; nothing obliges the backend or
\* the network to answer.
ProbeSpec ==
  /\ ProbeInit /\ [][ProbeNext]_vars
  /\ WF_vars(\E p \in Runs : CheckServerStatus(p))
  /\ WF_vars(TestTimeout)

(***************************************************************************)
(* Inventory, Products and EditProduct.  page.sent is the mutating call a  *)
(* screen has sent and not yet seen settle, with the user the store held   *)
(* when it was sent.                                                       *)
(***************************************************************************)
\* the mutating call the mounted screen has in flight
Sent == IF page.route = "login" THEN NoneSent ELSE page.sent

\* Login.onSubmit on the login route, shown only while not authenticated
LoginScreenSubmit(raw, accessToken, refreshToken) ==
  /\ ~store.isAuthenticated
  /\ Login(raw, accessToken, refreshToken)

\* the user opens a screen, by a link or by its URL; the screen mounts with
\* its initial state
Visit(route) ==
  /\ store.isAuthenticated
  /\ page' = Mount(route)
  /\ UNCHANGED <<store, storage, call, sidebar, reports>>

HandleAdjustStock_NoCheck(product) ==
  /\ page.route = "inventory" /\ ~page.showAdjustmentModal
  /\ page' = [page EXCEPT !.selectedProduct = product,
                          !.changeType = "adjustment",
                          !.quantityChanged = Whole(0),
                          !.error = NULL,
                          !.showAdjustmentModal = TRUE]
  /\ UNCHANGED <<store, storage, call, sidebar, reports>>

\* the "Adjust Stock" button of a row, rendered when canAdjustStock(product),
\* and its handler handleAdjustStock
HandleAdjustStock(product) ==
  /\ page.route = "inventory" /\ ~page.showAdjustmentModal
  /\ Truthy(canAdjustStock(store.user, product))
  /\ IF ~Truthy(canAdjustStock(store.user, product))
     THEN page' = page
     ELSE page' = [page EXCEPT !.selectedProduct = product,
                               !.changeType = "adjustment",
                               !.quantityChanged = Whole(0),
                               !.error = NULL,
                               !.showAdjustmentModal = TRUE]
  /\ UNCHANGED <<store, storage, call, sidebar, reports>>

ModalOpen ==
  /\ page.route = "inventory" /\ page.showAdjustmentModal
  /\ page.selectedProduct /= NoProduct

\* the user picks a change type or types a quantity
SetChangeType(changeType) ==
  /\ ModalOpen
  /\ page' = [page EXCEPT !.changeType = changeType]
  /\ UNCHANGED <<store, storage, call, sidebar, reports>>

SetQuantity(q) ==
  /\ ModalOpen
  /\ page' = [page EXCEPT !.quantityChanged = q, !.error = NULL]
  /\ UNCHANGED <<store, storage, call, sidebar, reports>>

\* the Cancel button of the modal
CancelAdjustment ==
  /\ ModalOpen
  /\ page' = [page EXCEPT !.showAdjustmentModal = FALSE,
                          !.selectedProduct = NoProduct,
                          !.changeType = NULL,
                          !.quantityChanged = Whole(0),
                          !.error = NULL]
  /\ UNCHANGED <<store, storage, call, sidebar, reports>>

\* the submit button (disabled while the mutation is loading): the input's
\* own constraints, then handleSubmit's validation, then onSubmit
SubmitAdjustment ==
  /\ ModalOpen /\ Sent = NoneSent
  /\ LET q == page.quantityChanged
     IN  IF ~NativeValid(q)
         THEN page' = [page EXCEPT !.error = "invalid"]
         ELSE IF validateQuantity(q) /= NULL
         THEN page' = [page EXCEPT !.error = validateQuantity(q)]
         ELSE page' = [page EXCEPT
                         !.error = NULL,
                         !.sent = [method |-> "POST",
                                   product |-> page.selectedProduct,
                                   actor |-> store.user]]
  /\ UNCHANGED <<store, storage, call, sidebar, reports>>

\* EditProduct: GET /products/:id has answered with the product
GetProductOk(product) ==
  /\ page.route = "editProduct" /\ page.product = NoProduct
  /\ page' = [page EXCEPT !.product = product]
  /\ UNCHANGED <<store, storage, call, sidebar, reports>>

\* EditProduct: the form is rendered once the product is loaded and
\* canEditProduct(product) allows; its submit runs onSubmit
EditProductSubmit ==
  /\ page.route = "editProduct" /\ page.product /= NoProduct
  /\ Truthy(EditProduct_canEditProduct(store.user, page.product))
  /\ Sent = NoneSent
  /\ page' = [page EXCEPT !.sent = [NoneSent EXCEPT !.method = "PUT",
                                                    !.product = page.product,
                                                    !.actor = store.user]]
  /\ UNCHANGED <<store, storage, call, sidebar, reports>>

\* Products: the delete button of a row, rendered when canDeleteProduct(),
\* and handleDeleteProduct with the confirm() accepted
HandleDeleteProduct(product) ==
  /\ page.route = "products" /\ Sent = NoneSent
  /\ Truthy(canDeleteProduct(store.user))
  /\ page' = [page EXCEPT !.sent = [NoneSent EXCEPT !.method = "DELETE",
                                                    !.product = product,
                                                    !.actor = store.user]]
  /\ UNCHANGED <<store, storage, call, sidebar, reports>>

\* the mutating call has settled.  onSuccess of the stock adjustment closes
\* the modal and resets the form, onSuccess of the product update navigates
\* to the product's detail screen; an error only shows a toast.
MutationSettled(ok) ==
  /\ Sent /= NoneSent
  /\ IF ok /\ page.sent.method = "POST"
     THEN page' = [page EXCEPT !.sent = NoneSent,
                               !.showAdjustmentModal = FALSE,
                               !.selectedProduct = NoProduct,
                               !.changeType = NULL,
                               !.quantityChanged = Whole(0),
                               !.error = NULL]
     ELSE IF ok /\ page.sent.method = "PUT"
     THEN page' = ProductsPage
     ELSE page' = [page EXCEPT !.sent = NoneSent]
  /\ UNCHANGED <<store, storage, call, sidebar, reports>>

\* The screens, with the session changing under them: login, the sidebar's
\* logout, and the logout cascade of a call whose refresh fails.
PagesNext ==
  \/ \E raw \in PageRawUsers, r \in RefreshTokens :
       LoginScreenSubmit(raw, "a1", r)
  \/ HandleLogoutClick
  \/ HandleLogoutSettled
  \/ Request(1)
  \/ \E c \in Calls : RespondOk(c)
  \/ \E c \in Calls : RespondError(c, "401")
  \/ \E c \in Calls : RefreshFail(c)
  \/ \E route \in Routes : Visit(route)
  \/ \E product \in Products : HandleAdjustStock(product)
  \/ \E changeType \in ChangeTypes : SetChangeType(changeType)
  \/ \E q \in Quantities : SetQuantity(q)
  \/ CancelAdjustment
  \/ SubmitAdjustment
  \/ \E product \in Products : GetProductOk(product)
  \/ EditProductSubmit
  \/ \E product \in Products : HandleDeleteProduct(product)
  \/ \E ok \in BOOLEAN : MutationSettled(ok)

PagesSpec == Init /\ [][PagesNext]_vars

(***************************************************************************)
(* Page loads over whatever localStorage holds                             *)
(***************************************************************************)
\* the values a department key of a persisted user can have
LegacyValues == Departments \cup {NULL, EMPTY, ABSENT}

\* the users an earlier or the current version of the app can have persisted
PersistedUsers ==
  {NullUser} \cup
  [role : {"manager", "staff"}, departmentId : LegacyValues,
   department_id : LegacyValues]

\* a session as partialize writes it: none, or a user with both tokens
PersistedStates ==
  {partialize(InitialState)} \cup
  {partialize(login(InitialState, u, "a1", "r1")) :
     u \in PersistedUsers \ {NullUser}}

\* the key is absent, unreadable, or holds a persisted session
StoredValues == {<<>>, <<Unparseable>>} \cup {<<p>> : p \in PersistedStates}

\* the app has just been loaded over some stored value
RehydrateInit ==
  /\ storage \in StoredValues
  /\ store = rehydrate(storage)
  /\ call = [c \in Calls |-> IdleCall]
  /\ sidebar = IdleSidebar
  /\ reports = IdleReports
  /\ page = ClosedPage

\* the key is removed from localStorage (site data cleared)
ClearStorage ==
  /\ storage' = <<>>
  /\ UNCHANGED <<store, call, sidebar, reports, page>>

\* the value of the key is damaged
CorruptStorage ==
  /\ storage' = <<Unparseable>>
  /\ UNCHANGED <<store, call, sidebar, reports, page>>

RehydrateNext ==
  \/ Reload
  \/ SetLoading(FALSE)
  \/ ClearStorage
  \/ CorruptStorage

RehydrateSpec == RehydrateInit /\ [][RehydrateNext]_vars

(***************************************************************************)
(* The pipeline under every error a request can fail with                  *)
(***************************************************************************)
ErrorsNext ==
  \/ \E raw \in RawUsers, r \in RefreshTokens : LoginScreenSubmit(raw, "a1", r)
  \/ \E c \in Calls : Request(c)
  \/ \E c \in Calls : RespondOk(c)
  \/ \E c \in Calls, error \in AxiosErrors : ResponseError(c, error)
  \/ \E c \in Calls : RefreshOk(c, "a2")
  \/ \E c \in Calls : RefreshFail(c)

ErrorsSpec == Init /\ [][ErrorsNext]_vars

(***************************************************************************)
(* The pipeline and the sidebar's logout when every request sent is        *)
(* answered or fails in the end                                            *)
(***************************************************************************)
FairNext ==
  \/ \E raw \in RawUsers, r \in RefreshTokens : LoginScreenSubmit(raw, "a1", r)
  \/ \E c \in Calls : Request(c)
  \/ \E c \in Calls : RespondOk(c)
  \/ \E c \in Calls, status \in ErrorStatuses : RespondError(c, status)
  \/ \E c \in Calls : RefreshOk(c, "a2")
  \/ \E c \in Calls : RefreshFail(c)
  \/ HandleLogoutClick
  \/ HandleLogoutSettled

\* each request through api and each refresh request gets its answer or its
\* failure, and the continuation of handleLogout runs once its await settles
FairSpec ==
  /\ Init /\ [][FairNext]_vars
  /\ \A c \in Calls :
       WF_vars(RespondOk(c) \/ \E status \in ErrorStatuses :
                                RespondError(c, status))
  /\ \A c \in Calls : WF_vars(RefreshOk(c, "a2") \/ RefreshFail(c))
  /\ WF_vars(HandleLogoutSettled)

(***************************************************************************)
(* Specification                                                           *)
(***************************************************************************)
Next ==
  \/ \E raw \in RawUsers, a \in AccessTokens, r \in RefreshTokens :
       Login(raw, a, r)
  \/ \E upd \in UserUpdates : UpdateUser(upd)
  \/ SetLoading(FALSE)
  \/ \E a \in AccessTokens, r \in RefreshTokens \cup {NULL, EMPTY} :
       UpdateTokens(a, r)
  \/ Reload
  \/ \E c \in Calls : Request(c)
  \/ \E c \in Calls : RespondOk(c)
  \/ \E c \in Calls, status \in ErrorStatuses : RespondError(c, status)
  \/ \E c \in Calls, a \in AccessTokens : RefreshOk(c, a)
  \/ \E c \in Calls : RefreshFail(c)
  \/ HandleLogoutClick
  \/ HandleLogoutSettled
  \/ FetchReportData
  \/ \E status \in ErrorStatuses \cup {"200"} : ReportResponse(status)

Spec == Init /\ [][Next]_vars

(***************************************************************************)
(* Vocabulary of the properties                                            *)
(***************************************************************************)
Cleared(s) ==
  /\ s.user = NullUser /\ s.accessToken = NULL /\ s.refreshToken = NULL
  /\ ~s.isAuthenticated

InFlight(c) == call[c].pc \in {"sent", "refreshing"}

\* this step: call c, eligible for recovery, receives a 401
Eligible401(c) ==
  /\ call[c].pc = "sent" /\ ~call[c].retry /\ Truthy(store.refreshToken)
  /\ call'[c].pc \in {"refreshing", "rejected"}
  /\ call'[c].status = "401"

\* this step: the refresh request of call c succeeds and c is re-issued
Reissued(c) == call'[c].reissues > call[c].reissues

\* this step: the refresh request of call c fails
RefreshFailed(c) ==
  /\ call[c].pc = "refreshing" /\ call[c].result /= "refreshError"
  /\ call'[c].result = "refreshError"

\* no step of this kind sends a request
NoRequestSent ==
  \A c \in Calls : /\ call'[c].sends <= call[c].sends
                   /\ call'[c].refreshes <= call[c].refreshes

(***************************************************************************)
(* C1..C10                                                                 *)
(***************************************************************************)
C1_Recovered ==
  \A c \in Calls :
    (call[c].pc = "resolved" /\ call[c].retry) =>
      /\ call[c].result = "ok" /\ call[c].status = "200"
      /\ call[c].refreshes = 1 /\ call[c].reissues = 1 /\ call[c].sends = 2

C1_Stored ==
  \A c \in Calls :
    /\ Reissued(c) =>
         /\ store'.accessToken = call'[c].newTok
         /\ call'[c].auth = call'[c].newTok
    /\ (call[c].pc = "sent" /\ call'[c].pc = "resolved") => store' = store

\* C1: a call whose first response is 401, whose refresh succeeds and whose
\* re-issue succeeds resolves with the re-issue's result after exactly one
\* refresh request and one re-issue; the refresh step leaves the returned
\* token in the store (and on the re-issued request), and the call's last
\* step, the re-issue's response, does not touch the store.
C1_TransparentRefresh == []C1_Recovered /\ [][C1_Stored]_vars

C1_Witness ==
  \E c \in Calls :
    call[c].pc = "resolved" /\ call[c].retry /\ call[c].result = "ok"

C2_Terminal ==
  \A c \in Calls :
    call[c].result = "refreshError" =>
      /\ call[c].pc = "rejected"
      /\ call[c].logouts = 1 /\ call[c].refreshes = 1
      /\ call[c].reissues = 0 /\ call[c].sends = 1

C2_Cascade ==
  \A c \in Calls :
    RefreshFailed(c) =>
      Cleared(store') /\ call'[c].pc = "rejected"

\* C2: when the refresh request of a call fails, the interceptor calls
\* logout once (user and both tokens null, isAuthenticated false), sends no
\* re-issue and no further refresh for the call, and rejects the caller.
C2_RefreshFailureLogsOut == []C2_Terminal /\ [][C2_Cascade]_vars

C2_Witness ==
  \E c \in Calls :
    /\ call[c].result = "refreshError" /\ call[c].pc = "rejected"
    /\ Cleared(store)

C3_AtMostOne ==
  \A c \in Calls : call[c].refreshes <= 1 /\ call[c].reissues <= 1

C3_Guarded ==
  \A c \in Calls :
    /\ call'[c].refreshes > call[c].refreshes =>
         /\ ~call[c].retry /\ Truthy(store.refreshToken)
         /\ call'[c].status = "401"
    /\ Eligible401(c) => call'[c].pc = "refreshing"

\* C3: at most one refresh request and one re-issue per call; a refresh is
\* sent only on a 401 for a request not yet marked _retry while the store
\* holds a refresh token; and a first 401 of a call is recovered whatever
\* the marks of the other calls.
C3_SingleRecoveryPerCall == []C3_AtMostOne /\ [][C3_Guarded]_vars

C3_Witness ==
  \E c \in Calls :
    /\ call[c].pc = "rejected" /\ call[c].retry /\ call[c].status = "401"
    /\ call[c].result = "error" /\ call[c].refreshes = 1

\* C4: isAuthenticated is true exactly when user and accessToken are both
\* non-null.
C4_AuthenticatedIffUserAndToken ==
  store.isAuthenticated <=>
    (store.user /= NullUser /\ store.accessToken /= NULL)

C4_Witness ==
  /\ store.user = NullUser /\ store.accessToken /= NULL
  /\ ~store.isAuthenticated
  /\ \E c \in Calls : call[c].result = "refreshError"

\* C5 (as claimed): updateTokens called while no session exists (directly,
\* or by the interceptor when a refresh answers) leaves the store as it is.
C5_UpdateTokensNoSessionNoOp ==
  [][ ( /\ store.user = NullUser /\ ~store.isAuthenticated
        /\ \/ \E a \in AccessTokens, r \in RefreshTokens \cup {NULL, EMPTY} :
                UpdateTokens(a, r)
           \/ \E c \in Calls, a \in AccessTokens : RefreshOk(c, a) )
      => store' = store ]_vars

C6_Result ==
  LET s == logout(store) IN Cleared(s) /\ logout(s) = s

C6_NoNetwork ==
  ( \/ HandleLogoutSettled
    \/ \E c \in Calls : RefreshFail(c)
    \/ ReportResponse("401")
    \/ (~Truthy(store.refreshToken) /\ HandleLogoutClick) )
  => (store' = logout(store) /\ Cleared(store') /\ NoRequestSent)

\* C6: logout from any reachable store state gives user, accessToken and
\* refreshToken null and isAuthenticated false, a second logout changes
\* nothing, and no step that calls logout sends a request.
C6_LogoutClearsIdempotent == []C6_Result /\ [][C6_NoNetwork]_vars

C6_Witness ==
  /\ sidebar.pc = "done" /\ Cleared(store)
  /\ \E c \in Calls : call[c].result = "refreshError" /\ call[c].logouts = 1

\* C7 (as claimed): the logout notification is never in flight while the
\* store still holds the user or a token.
C7_ClearedBeforeNotification ==
  (sidebar.pc = "awaiting" /\ InFlight(sidebar.c)) => Cleared(store)

C7_Click ==
  (sidebar.pc /= "awaiting" /\ sidebar'.pc = "awaiting") =>
    /\ Truthy(store.refreshToken)
    /\ call'[sidebar'.c].pc = "sent"
    /\ store' = store

C7_Settled ==
  (sidebar.pc = "awaiting" /\ sidebar'.pc = "done") =>
    /\ call[sidebar.c].pc \in {"resolved", "rejected"}
    /\ store' = logout(store)

C7_Direct ==
  (sidebar.pc = "idle" /\ sidebar'.pc = "done") =>
    /\ ~Truthy(store.refreshToken)
    /\ store' = logout(store)
    /\ NoRequestSent

\* C7 (amended): with a refresh token stored, handleLogout sends the
\* notification and leaves the store as it is; it clears the store only in
\* the step after the notification has settled; with no refresh token it
\* clears the store at once and sends nothing.
C7_ClearedAfterNotification == [][C7_Click /\ C7_Settled /\ C7_Direct]_vars

C7_Witness ==
  /\ sidebar.pc = "awaiting" /\ call[sidebar.c].pc = "sent"
  /\ store.isAuthenticated /\ Truthy(store.refreshToken)

C8_OwnRefresh ==
  \A c \in Calls : call[c].refreshes = IF call[c].retry THEN 1 ELSE 0

C8_NotCoalesced ==
  \A c, d \in Calls :
    (c /= d /\ call[d].pc = "refreshing" /\ Eligible401(c)) =>
      /\ call'[c].pc = "refreshing"
      /\ call'[c].refreshes = call[c].refreshes + 1
      /\ call'[d] = call[d]

\* C8: every call that takes the recovery branch has sent one refresh
\* request of its own, also when the refresh of another call is in flight.
C8_NoSingleFlight == []C8_OwnRefresh /\ [][C8_NotCoalesced]_vars

C8_Witness ==
  \E c, d \in Calls :
    c /= d /\ call[c].pc = "refreshing" /\ call[d].pc = "refreshing"

C9_Order ==
  \A c \in Calls :
    /\ call[c].pc = "refreshing" => call[c].reissues = 0
    /\ call[c].result = "refreshError" => call[c].reissues = 0
    /\ call[c].reissues <= call[c].refreshes

C9_AfterStore ==
  \A c \in Calls :
    Reissued(c) =>
      /\ call[c].pc = "refreshing"
      /\ call'[c].newTok \in AccessTokens
      /\ store'.accessToken = call'[c].newTok
      /\ call'[c].result /= "refreshError"

\* C9: a call is re-issued only in the step in which its refresh request
\* has answered successfully and the new access token has been stored;
\* never while the refresh is in flight and never after it failed.
C9_ReissueAfterRefresh == []C9_Order /\ [][C9_AfterStore]_vars

C9_Witness ==
  \E c \in Calls :
    /\ call[c].pc = "sent" /\ call[c].reissues = 1
    /\ store.accessToken = call[c].newTok

\* C10 (as claimed): a session cleared because of a 401 was preceded by a
\* refresh attempt for the call that got the 401, in the pipeline and in
\* the report fetches of the Reports screen.
C10_RefreshBeforeLogout ==
  /\ \A c \in Calls : call[c].logouts > 0 => call[c].refreshes >= 1
  /\ (reports.pc = "authError" /\ reports.status = "401") =>
       reports.refreshes >= 1

(***************************************************************************)
(* C11..C18: the screens                                                   *)
(***************************************************************************)
\* the department rule in the words of the specification
DepartmentMatch(u, p) ==
  Truthy(u.departmentId) /\ u.departmentId = p.department_id

ManagerAllowed(u) ==
  (u /= NullUser /\ u.role = "manager") =>
    /\ Truthy(canDeleteProduct(u))
    /\ \A p \in Resources :
         /\ Truthy(canEditProduct(u, p))
         /\ Truthy(EditProduct_canEditProduct(u, p))
         /\ Truthy(canAdjustStock(u, p))

C11_EveryManager == \A u \in Actors : ManagerAllowed(u)

\* C11: for every manager and every resource, whatever its department
\* reference, the edit checks, the stock-adjustment check and the delete
\* check allow: for every user of the bounded set, and for the user the
\* store holds.
C11_ManagerAllowedEverywhere ==
  C11_EveryManager /\ ManagerAllowed(store.user)

\* a manager has opened the adjustment modal on a product of no department
C11_Witness ==
  /\ store.user.role = "manager"
  /\ ModalOpen /\ page.selectedProduct.department_id = NULL

StaffScoped(u) ==
  \A p \in Resources :
    /\ (u /= NullUser /\ u.role = "staff") =>
         /\ Truthy(canEditProduct(u, p)) <=> DepartmentMatch(u, p)
         /\ Truthy(canAdjustStock(u, p)) <=> DepartmentMatch(u, p)
         /\ ~Truthy(u.departmentId) =>
              ~Truthy(canEditProduct(u, p)) /\ ~Truthy(canAdjustStock(u, p))
         /\ ~Truthy(p.department_id) =>
              ~Truthy(canEditProduct(u, p)) /\ ~Truthy(canAdjustStock(u, p))
    /\ u = NullUser =>
         ~Truthy(canEditProduct(u, p)) /\ ~Truthy(canAdjustStock(u, p))

C12_EveryStaff == \A u \in Actors : StaffScoped(u)

\* C12: for every staff member and every resource the edit and the
\* stock-adjustment checks allow exactly when the member's departmentId is
\* set and equals the resource's department id; with no user they deny.
C12_StaffDepartmentScoped ==
  C12_EveryStaff /\ StaffScoped(store.user)

\* a staff member has opened the adjustment modal on a product of their own
\* department
C12_Witness ==
  /\ store.user.role = "staff"
  /\ ModalOpen /\ page.selectedProduct.department_id = store.user.departmentId

DeleteManagerOnly(u) ==
  /\ Truthy(canDeleteProduct(u)) <=> (u /= NullUser /\ u.role = "manager")
  /\ \A v \in Actors :
       u.role = v.role => canDeleteProduct(u) = canDeleteProduct(v)

C13_EveryActor == \A u \in Actors : DeleteManagerOnly(u)

\* C13: the delete check allows exactly when a user exists and is a
\* manager; two users of the same role get the same answer whatever their
\* departments.
C13_DeleteManagerOnly ==
  C13_EveryActor /\ DeleteManagerOnly(store.user)

\* a manager's DELETE is in flight
C13_Witness ==
  Sent.method = "DELETE" /\ store.user.role = "manager"

CopiesAgree(u) ==
  \A p \in Resources :
    /\ canEditProduct(u, p) = EditProduct_canEditProduct(u, p)
    /\ canEditProduct(u, p) = canAdjustStock(u, p)
    /\ Truthy(canEditProduct(u, p)) <=> Truthy(canAdjustStock(u, p))
    /\ Truthy(canEditProduct(u, p)) <=> Truthy(EditProduct_canEditProduct(u, p))

C14_EveryPair == \A u \in Actors : CopiesAgree(u)

\* C14: canEditProduct of Products, canEditProduct of EditProduct and
\* canAdjustStock of Inventory return the same value, hence the same
\* decision, for every user and resource.
C14_CopiesAgree ==
  C14_EveryPair /\ CopiesAgree(store.user)

\* a staff member's PUT from EditProduct is in flight
C14_Witness ==
  Sent.method = "PUT" /\ store.user.role = "staff"

\* C15: a mutating call sent by a screen is one its check allows for the
\* user the store holds, who is the user that sent it: POST by
\* canAdjustStock, PUT by canEditProduct, DELETE by canDeleteProduct.
C15_SentOnlyIfAllowed ==
  /\ Sent /= NoneSent => Sent.actor = store.user
  /\ Sent.method = "POST" =>
       Truthy(canAdjustStock(store.user, Sent.product))
  /\ Sent.method = "PUT" =>
       Truthy(EditProduct_canEditProduct(store.user, Sent.product))
  /\ Sent.method = "DELETE" => Truthy(canDeleteProduct(store.user))

\* after a logout cascade and a new login, a staff member's POST is in flight
C15_Witness ==
  /\ Sent.method = "POST" /\ store.user.role = "staff"
  /\ \E c \in Calls : call[c].logouts > 0

\* a whole quantity of at least 1
Positive(q) == ~q.half /\ q.n >= 1

\* C16: for changeType adjustment the previewed new quantity is previous
\* minus quantity when the quantity does not exceed previous, and previous
\* plus quantity otherwise.
C16_AdjustmentPreview ==
  (ModalOpen /\ page.changeType = "adjustment"
             /\ Positive(page.quantityChanged)) =>
    LET previous == page.selectedProduct.quantity_in_stock
        q == page.quantityChanged
    IN  NewStock("adjustment", q, previous) =
          IF ~Greater(q, previous) THEN Minus(previous, q)
          ELSE Plus(previous, q)

\* C17: for every positive quantity the previewed new quantity is previous
\* plus quantity for restock and return and previous minus quantity for
\* sale, below zero when the sale exceeds the stock.
C17_RestockReturnSalePreview ==
  ModalOpen =>
    LET previous == page.selectedProduct.quantity_in_stock
        q == page.quantityChanged
    IN  Greater(q, 0) =>
          /\ NewStock("restock", q, previous) = Plus(previous, q)
          /\ NewStock("return", q, previous) = Plus(previous, q)
          /\ NewStock("sale", q, previous) = Minus(previous, q)
          /\ Greater(q, previous) => Less(NewStock("sale", q, previous), 0)
          /\ page.changeType \in {"restock", "return"} =>
               NewStock(page.changeType, q, previous) = Plus(previous, q)

\* the preview of a sale larger than the stock shows a negative quantity
C17_Witness ==
  /\ ModalOpen /\ page.changeType = "sale"
  /\ Positive(page.quantityChanged)
  /\ NewStock(page.changeType, page.quantityChanged,
              page.selectedProduct.quantity_in_stock).n < 0

\* zero, negative, or not whole
InvalidQuantity(q) == Less(q, 1) \/ q.half

\* C18: submitting a quantity that is zero, negative or not whole reports
\* an error, sends no POST and leaves the typed value as it is.
C18_InvalidQuantityRejected ==
  [][(SubmitAdjustment /\ InvalidQuantity(page.quantityChanged)) =>
       /\ page'.error /= NULL
       /\ page'.sent = NoneSent
       /\ page'.quantityChanged = page.quantityChanged]_vars

\* 1 1/2 was submitted: the error is shown and nothing is in flight
C18_Witness ==
  /\ ModalOpen /\ page.quantityChanged = [n |-> 1, half |-> TRUE]
  /\ page.error /= NULL /\ Sent = NoneSent

(***************************************************************************)
(* C19..C20: rehydration                                                   *)
(***************************************************************************)
\* C19: after rehydration of a persisted user that carries department_id,
\* the user has no department_id key, and its departmentId is the
\* structured value when there was one and the legacy value otherwise,
\* whatever value the legacy key held.
C19_LegacyDepartmentMigrated ==
  (/\ storage /= <<>>
   /\ storage[1] /= Unparseable
   /\ storage[1].user /= NullUser
   /\ storage[1].user.department_id /= ABSENT) =>
    LET old == storage[1].user
    IN  /\ store.user.department_id = ABSENT
        /\ store.user.departmentId =
             IF Truthy(old.departmentId) THEN old.departmentId
             ELSE old.department_id

Sending(c) == call[c].pc /= "sent" /\ call'[c].pc = "sent"

\* the Authorization header the config has before the interceptor runs:
\* none on a first send, the one line 54 wrote on a re-issue
HeaderBefore(c) ==
  IF call[c].pc = "refreshing" THEN call'[c].newTok ELSE NULL

\* C21: every request sent through api carries as its bearer the access
\* token the store holds when the request interceptor runs, whenever the
\* store holds one; when it holds none the interceptor adds no header (the
\* request keeps the header its config had).
C21_BearerFromStore ==
  [][\A c \in Calls :
       Sending(c) =>
         call'[c].auth = IF store'.accessToken /= NULL
                         THEN store'.accessToken
                         ELSE HeaderBefore(c)]_vars

\* a request in flight with the store's token as its bearer
C21_Witness ==
  \E c \in Calls :
    /\ call[c].pc = "sent" /\ call[c].sends = 1
    /\ call[c].auth /= NULL /\ call[c].auth = store.accessToken

\* this step: call c fails with `error` and is not recovered
NotRecovered(c, error) ==
  /\ ResponseError(c, error)
  /\ ~ShouldRefresh(error.status, call[c].retry, store.refreshToken)

\* a call rejected with the error it failed with has shown one toast,
\* or none when response.data.error is on the silent list
C22_Count ==
  \A c \in Calls :
    (call[c].pc = "rejected" /\ call[c].result = "error") =>
      call[c].toasts = IF call[c].error \in silentErrors THEN 0 ELSE 1

C22_Rejects ==
  \A c \in Calls, error \in AxiosErrors :
    NotRecovered(c, error) =>
      /\ call'[c].pc = "rejected" /\ call'[c].result = "error"
      /\ call'[c].error = error.error
      /\ call'[c].toasts =
           call[c].toasts + (IF error.error \in silentErrors THEN 0 ELSE 1)

\* C22: a failed call that does not take the refresh branch shows exactly
\* one automatic notification and is then rejected, except that an error
\* whose text is 'Invalid credentials' or 'User not found' shows none.
C22_OneNotificationUnlessSilent == []C22_Count /\ [][C22_Rejects]_vars

\* one call rejected silently, another with its notification
C22_Witness ==
  \E c, d \in Calls :
    /\ call[c].pc = "rejected" /\ call[c].error \in silentErrors
    /\ call[c].toasts = 0
    /\ call[d].pc = "rejected" /\ call[d].error = "Access denied"
    /\ call[d].toasts = 1

\* a call rejected with the non-401 error its first send failed with has
\* been sent once, with no refresh, re-issue or logout on its behalf
C23_Once ==
  \A c \in Calls :
    (/\ call[c].pc = "rejected" /\ call[c].result = "error"
     /\ call[c].status /= "401" /\ ~call[c].retry) =>
      /\ call[c].sends = 1 /\ call[c].refreshes = 0
      /\ call[c].reissues = 0 /\ call[c].logouts = 0

C23_PassedThrough ==
  \A c \in Calls, error \in AxiosErrors :
    (error.status /= "401" /\ ResponseError(c, error)) =>
      /\ NoRequestSent
      /\ call'[c].reissues = call[c].reissues
      /\ store' = store /\ storage' = storage
      /\ call'[c].pc = "rejected" /\ call'[c].result = "error"
      /\ call'[c].status = error.status /\ call'[c].error = error.error

\* C23: a request answered with a non-401 error, or not answered at all, is
\* not sent again: the step sends no refresh and no re-issue, leaves the
\* store as it is and rejects the caller with the error received; a call
\* whose first send fails so has been sent exactly once.
C23_NoRetryOnOtherErrors == []C23_Once /\ [][C23_PassedThrough]_vars

\* a network failure rejected while the store held a refresh token
C23_Witness ==
  \E c \in Calls :
    /\ call[c].pc = "rejected" /\ call[c].status = "network"
    /\ call[c].sends = 1 /\ call[c].result = "error"
    /\ store.isAuthenticated /\ Truthy(store.refreshToken)

\* C24 (as claimed): every run of the liveness check that has sent a probe
\* comes to its end, whether or not the backend answers.
C24_CheckTerminates ==
  \A p \in Runs :
    (page.check[p] \in {"health", "fallback"}) ~> (page.check[p] = "done")

\* the connectivity test of fetchReportData, which has the abort timer,
\* does come to its end
TestTerminates == (page.test.pc = "pending") ~> (page.test.pc = "done")

\* this step: updateTokens is called on the store by something other than
\* the pipeline
DirectUpdateTokens ==
  \E a \in AccessTokens, r \in RefreshTokens \cup {NULL, EMPTY} :
    UpdateTokens(a, r)

\* C25 (as claimed): from a cleared store, every step that is not a login
\* (the store's user stays null) leaves accessToken and refreshToken null,
\* the steps of calls whose refresh was sent before the logout included.
C25_TokensStayNullAfterLogout ==
  [][(Cleared(store) /\ store'.user = NullUser /\ ~DirectUpdateTokens) =>
       (store'.accessToken = NULL /\ store'.refreshToken = NULL)]_vars

\* this step: the re-issued request of call c is answered 401
Reissue401(c) ==
  /\ call[c].retry
  /\ \E error \in AxiosErrors : error.status = "401" /\ ResponseError(c, error)

\* a call rejected with the error of its re-issue has called logout never
C26_NoLogout ==
  \A c \in Calls :
    (call[c].pc = "rejected" /\ call[c].retry /\ call[c].result = "error") =>
      call[c].logouts = 0

C26_Rejected ==
  \A c \in Calls :
    Reissue401(c) =>
      /\ call'[c].pc = "rejected" /\ call'[c].result = "error"
      /\ call'[c].status = "401"
      /\ call'[c].logouts = call[c].logouts
      /\ NoRequestSent
      /\ store' = store /\ storage' = storage

\* C26: when the re-issued request is answered 401 the pipeline rejects the
\* caller with that error, sends nothing more, does not call logout and
\* does not redirect: the store (user, refreshed accessToken, refreshToken,
\* isAuthenticated) is as it was before the answer.
C26_Reissue401RejectsOnly == []C26_NoLogout /\ [][C26_Rejected]_vars

\* rejected after a 401 on the re-issue, the session with the refreshed
\* token still in the store
C26_Witness ==
  \E c \in Calls :
    /\ call[c].pc = "rejected" /\ call[c].retry /\ call[c].status = "401"
    /\ call[c].result = "error" /\ call[c].sends = 2 /\ call[c].logouts = 0
    /\ store.isAuthenticated /\ store.user /= NullUser
    /\ store.accessToken = "a2" /\ store.refreshToken = "r1"

Settled(c) == call[c].pc \in {"resolved", "rejected"}

\* no call has its request sent more than twice or sends more than one
\* refresh request
C27_Bounded ==
  \A c \in Calls : call[c].sends <= 2 /\ call[c].refreshes <= 1

\* C27: when every request sent is answered or fails in the end, every call
\* made through api settles (resolved or rejected), whatever the answers,
\* after at most two sends of its request and at most one refresh request.
C27_EveryCallSettles ==
  /\ []C27_Bounded
  /\ \A c \in Calls : InFlight(c) ~> Settled(c)

\* a call settled after two sends and one refresh
C27_Witness ==
  \E c \in Calls :
    /\ Settled(c) /\ call[c].sends = 2 /\ call[c].refreshes = 1
    /\ call[c].status = "500"

C29_Direct ==
  (HandleLogoutClick /\ ~Truthy(store.refreshToken)) =>
    /\ Cleared(store') /\ sidebar'.pc = "done"
    /\ NoRequestSent /\ call' = call

\* C29: a logout started from the sidebar with a refresh token stored ends
\* with the store cleared, however the notification settles (answered,
\* rejected, 401 and a refresh that succeeds or fails, network failure); with
\* no refresh token the click sends nothing and clears the store itself.
C29_SidebarLogoutClears ==
  /\ [][C29_Direct]_vars
  /\ (sidebar.pc = "awaiting") ~> (sidebar.pc = "done" /\ Cleared(store))

\* handleLogout about to run its catch block: the notification was rejected
\* after a 401 and a refresh, the session still in the store
C29_Witness ==
  /\ sidebar.pc = "awaiting"
  /\ call[sidebar.c].pc = "rejected" /\ call[sidebar.c].retry
  /\ call[sidebar.c].result = "error"
  /\ store.isAuthenticated

\* the second arguments updateTokens can be called with: a refresh token,
\* null, the empty string, or none at all
SecondArguments == {"r1", "r2", NULL, EMPTY, ABSENT}

\* updateTokens on the store as it is: only accessToken changes, and
\* refreshToken too when the second argument is a non-empty token
C28_UpdateTokensFrame ==
  \A accessToken \in AccessTokens, refreshToken \in SecondArguments :
    LET s == updateTokens(store, accessToken, refreshToken)
    IN  /\ s.accessToken = accessToken
        /\ s.refreshToken = IF refreshToken \in {"r1", "r2"}
                            THEN refreshToken ELSE store.refreshToken
        /\ s.user = store.user
        /\ s.isAuthenticated = store.isAuthenticated
        /\ s.isLoading = store.isLoading

C28_RefreshFrame ==
  \A c \in Calls :
    Reissued(c) =>
      /\ store'.accessToken = call'[c].newTok
      /\ store'.refreshToken = store.refreshToken
      /\ store'.user = store.user
      /\ store'.isAuthenticated = store.isAuthenticated
      /\ store'.isLoading = store.isLoading

\* C28: a successful refresh of the pipeline changes accessToken only:
\* refreshToken (never rotated), user and isAuthenticated are as before;
\* and updateTokens replaces refreshToken only when it is given a non-empty
\* second argument.
C28_RefreshChangesAccessTokenOnly ==
  []C28_UpdateTokensFrame /\ [][C28_RefreshFrame]_vars

\* a call re-issued after its refresh, the store holding the new access
\* token beside the refresh token of the login
C28_Witness ==
  \E c \in Calls :
    /\ call[c].pc = "sent" /\ call[c].reissues = 1
    /\ call[c].newTok = "a2" /\ store.accessToken = "a2"
    /\ store.refreshToken = "r1" /\ store.isAuthenticated

\* C30 (as claimed): in the preview of the open modal, for a positive
\* quantity, the New Stock line is the current stock plus the quantity when
\* the Change line shows '+', and the current stock minus the quantity when
\* it shows '-'.
C30_SignAgreesWithNewStock ==
  (ModalOpen /\ Positive(page.quantityChanged)) =>
    LET current == page.selectedProduct.quantity_in_stock
        q == page.quantityChanged
    IN  NewStock(page.changeType, q, current) =
          IF ChangeSign(page.changeType) = "+" THEN Plus(current, q)
          ELSE Minus(current, q)

=============================================================================
